---- MODULE Spec2Model ----
(***************************************************************************)
(* A model of Ai_Doc-Intelligence:                                         *)
(*   - ingestion/chunker.py    split_text_into_chunks, chunk_pages         *)
(*   - retrieval/vector_store.py  VectorStore over a FAISS IndexFlatL2     *)
(*   - rag/pipeline.py, rag/pipelinecloud.py  build_context,               *)
(*     generate_answer                                                     *)
(*   - frontend/app.py, frontend/app_cloud.py  the two button handlers     *)
(* The specifications share the variables:                                 *)
(*   SpecChunk      the loop of split_text_into_chunks                     *)
(*   SpecChunkLive  the same loop, scheduled until it returns              *)
(*   SpecPages      chunk_pages over a list of pages                       *)
(*   Spec           two VectorStore handles over one snapshot directory    *)
(*   SpecSearch     add_chunks and search on one handle, over every        *)
(*                  query, k and FAISS build                               *)
(*   SpecAppend     add_chunks alone, over every batch                     *)
(*   SpecGen        generate_answer over a list of retrieved chunks        *)
(*   SpecApp        a web session: Process Documents, then questions       *)
(***************************************************************************)
EXTENDS Integers, Sequences, FiniteSets, TLC

VARIABLES
    \* ---- chunker (ingestion/chunker.py) ----
    CHUNK_SIZE,       \* config.CHUNK_SIZE as imported by the chunker
    CHUNK_OVERLAP,    \* config.CHUNK_OVERLAP as imported by the chunker
    text,             \* the page text handed to split_text_into_chunks
    source,           \* the file name handed to split_text_into_chunks
    page_number,      \* the page number handed to split_text_into_chunks
    start,            \* the cursor of the while loop
    chunk_index,      \* the running chunk number
    page_chunks,      \* the list `chunks` the loop appends to
    cuts,             \* history: <<start, length>> of every slice text[start:end] taken
    cpc,              \* "loop" while in the while loop, "done" once returned
    pages,            \* the list of pages handed to chunk_pages
    page_i,           \* how many pages the loop of chunk_pages has taken
    all_chunks,       \* the list all_chunks of chunk_pages
    ppc,              \* "loop" while chunk_pages runs, "done" once it returned
    \* ---- vector store (retrieval/vector_store.py) ----
    faiss_build,      \* which FAISS build is installed (behaviour on ties, k = 0)
    index,            \* handle -> the vectors held by self.index, in insertion order
    chunks,           \* handle -> self.chunks
    file_index,       \* the artifact faiss.index in VECTOR_STORE_DIR
    file_chunks,      \* the artifact chunks.pkl in VECTOR_STORE_DIR
    pc,               \* handle -> position inside save_to_disk / load_from_disk
    pre,              \* handle -> (index, chunks) at the start of the call in progress
    nsaves,           \* how many save_to_disk calls have started
    snap,             \* history: (index, chunks) of the handle whose save started last
    last,             \* the outcome of the step last taken
    \* ---- answer generation (rag/pipeline.py, rag/pipelinecloud.py) ----
    pipeline,         \* which generate_answer runs: "local" (rag/pipeline.py) or "cloud"
    api_token,        \* whether HUGGINGFACE_API_TOKEN is configured (read by "cloud")
    retrieved_chunks, \* the (chunk, distance) list handed to generate_answer
    context_parts,    \* the list context_parts of build_context
    context,          \* the string build_context returned
    llm_calls,        \* how many times the generator (ollama.chat, requests.post) was called
    gen_out,          \* what generate_answer returned or raised
    \* ---- a session of the web interface (frontend/app.py) ----
    uploaded_files,   \* the documents of the Process Documents run in progress
    file_i,           \* how many of them the loop has taken
    batch_chunks,     \* the list all_chunks of the handler (embed_chunks fills it in)
    processed_names,  \* the list processed_names of the handler
    vector_store,     \* the VectorStore the handler builds
    ipc,              \* the handler's position: "idle", "loop", "add", "save", "commit"
    ing_result,       \* how the last run ended: "ok", or the step that raised
    session_before,   \* history: the session state when the run in progress started
    session_vector_store,   \* st.session_state.vector_store
    session_processed_files, \* st.session_state.processed_files
    qpc,              \* the chat handler's position: "idle", "embedded", "searched", ...
    query_embedding,  \* what embed_text returned for the question (a local of the run)
    search_result,    \* what VectorStore.search returned to the chat handler (a local)
    call_log,         \* history: the calls of the query in progress or last run, in order
    query_result      \* how the last query ended: "ok", or the call that raised

split_vars == <<text, source, page_number, start, chunk_index, page_chunks, cuts, cpc>>
pages_vars == <<pages, page_i, all_chunks, ppc>>
chunker_vars == <<CHUNK_SIZE, CHUNK_OVERLAP, split_vars, pages_vars>>
store_vars ==
    <<faiss_build, index, chunks, file_index, file_chunks, pc, pre, nsaves, snap, last>>
gen_vars == <<pipeline, api_token, retrieved_chunks, context_parts, context, llm_calls, gen_out>>
ingest_vars ==
    <<uploaded_files, file_i, batch_chunks, processed_names, vector_store, ipc, ing_result,
      session_before>>
session_vars == <<session_vector_store, session_processed_files>>
query_vars == <<qpc, query_embedding, search_result, call_log, query_result>>
app_vars == <<ingest_vars, session_vars, query_vars>>
vars == <<chunker_vars, store_vars, gen_vars, app_vars>>

(***************************************************************************)
(* Bounds of the model.                                                    *)
(***************************************************************************)
MaxLen == 5          \* longest page text, in characters
MaxChunkSize == 3    \* largest CHUNK_SIZE (and largest CHUNK_OVERLAP) tried
EMBEDDING_DIM == 2   \* config.EMBEDDING_DIM, scaled down from 384
MaxStored == 2       \* a handle accepts add_chunks while it stays within this
MaxK == 3            \* search is called with k in -1 .. MaxK
MaxSaves == 2        \* save_to_disk calls per behaviour
MaxPages == 2        \* longest list of pages handed to chunk_pages
MaxPageLen == 3      \* longest page text handed to chunk_pages
MaxFiles == 2        \* most documents uploaded to one Process Documents run

\* the sequence f itself, evaluated once into a tuple
Tuple(f) == <<>> \o f

Min(a, b) == IF a < b THEN a ELSE b
Max(a, b) == IF a > b THEN a ELSE b

\* ceil(a / b) for b > 0 and any integer a >= 0
CeilDiv(a, b) == (a + b - 1) \div b

(***************************************************************************)
(* ingestion/chunker.py                                                    *)
(***************************************************************************)
Alphabet == {"a", "b", " "}
Whitespace == {" "}

\* every text of at most n characters
TextsUpTo(n) == UNION {[1..m -> Alphabet] : m \in 0..n}

\* Python's s[lo:hi] on a sequence: negative bounds count from the end, and
\* both are clamped to the sequence
PyBound(i, n) == IF i < 0 THEN Max(i + n, 0) ELSE Min(i, n)
PySlice(s, lo, hi) == SubSeq(s, PyBound(lo, Len(s)) + 1, PyBound(hi, Len(s)))

\* str.strip(): drop leading and trailing whitespace
RECURSIVE LStrip(_)
LStrip(s) == IF s # <<>> /\ Head(s) \in Whitespace THEN LStrip(Tail(s)) ELSE s
RECURSIVE RStrip(_)
RStrip(s) ==
    IF s # <<>> /\ s[Len(s)] \in Whitespace THEN RStrip(SubSeq(s, 1, Len(s) - 1)) ELSE s
Strip(s) == RStrip(LStrip(s))

\* the page a text chunked on its own comes from
PageSource == "a.pdf"
PageNumber == 1

\* f"{source}_page{page_number}_chunk{chunk_index}"
ChunkId_NoPage(src, page, idx) == src \o "_chunk" \o ToString(idx)
ChunkId(src, page, idx) ==
    src \o "_page" \o ToString(page) \o "_chunk" \o ToString(idx)

\* the dict built in the loop body
MakeChunk(chunk_text, src, page, idx) ==
    [chunk_id    |-> ChunkId(src, page, idx),
     text        |-> Strip(chunk_text),
     source      |-> src,
     page_number |-> page]

\* the amount the cursor moves per iteration
ChunkStride_NoOverlap == CHUNK_SIZE
ChunkStride_OverlapOnly == CHUNK_OVERLAP
ChunkStride == CHUNK_SIZE - CHUNK_OVERLAP

\* end = start + CHUNK_SIZE, the end of the window text[start:end]
ChunkEnd_NoOverlap == start + ChunkStride
ChunkEnd == start + CHUNK_SIZE

\* the loop is cut off after this many fragments; a configuration that
\* advances the cursor never gets this far on a text of MaxLen characters
LoopCap == MaxLen + 1

\* one iteration of `while start < len(text)`
ChunkStep ==
    /\ cpc = "loop"
    /\ start < Len(text)
    /\ Len(page_chunks) < LoopCap
    /\ LET end == ChunkEnd
           chunk_text == PySlice(text, start, end)
       IN /\ page_chunks' = Append(page_chunks,
                 MakeChunk(chunk_text, source, page_number, chunk_index))
          /\ cuts' = Append(cuts, <<start, Len(chunk_text)>>)
    /\ start' = start + ChunkStride
    /\ chunk_index' = chunk_index + 1
    /\ UNCHANGED <<CHUNK_SIZE, CHUNK_OVERLAP, text, source, page_number, cpc, pages_vars>>
    /\ UNCHANGED <<store_vars, gen_vars, app_vars>>

\* the loop condition fails: return chunks
ChunkReturn ==
    /\ cpc = "loop"
    /\ ~(start < Len(text))
    /\ cpc' = "done"
    /\ UNCHANGED <<CHUNK_SIZE, CHUNK_OVERLAP, text, source, page_number, start, chunk_index,
                   page_chunks, cuts, pages_vars>>
    /\ UNCHANGED <<store_vars, gen_vars, app_vars>>

\* chunk_pages: `for page in pages` takes the next page and calls
\* split_text_into_chunks with its text, source and page_number
ChunkPagesEnter ==
    /\ ppc = "loop"
    /\ cpc = "off"
    /\ page_i < Len(pages)
    /\ page_i' = page_i + 1
    /\ text' = pages[page_i + 1].text
    /\ source' = pages[page_i + 1].source
    /\ page_number' = pages[page_i + 1].page_number
    /\ start' = 0
    /\ chunk_index' = 0
    /\ page_chunks' = <<>>
    /\ cuts' = <<>>
    /\ cpc' = "loop"
    /\ UNCHANGED <<CHUNK_SIZE, CHUNK_OVERLAP, pages, all_chunks, ppc>>
    /\ UNCHANGED <<store_vars, gen_vars, app_vars>>

\* chunk_pages: all_chunks.extend(page_chunks) once the call returned
ChunkPagesExtend ==
    /\ ppc = "loop"
    /\ cpc = "done"
    /\ all_chunks' = all_chunks \o page_chunks
    /\ cpc' = "off"
    /\ UNCHANGED <<CHUNK_SIZE, CHUNK_OVERLAP, text, source, page_number, start, chunk_index,
                   page_chunks, cuts, pages, page_i, ppc>>
    /\ UNCHANGED <<store_vars, gen_vars, app_vars>>

\* chunk_pages: the loop is over, return all_chunks
ChunkPagesReturn ==
    /\ ppc = "loop"
    /\ cpc = "off"
    /\ page_i = Len(pages)
    /\ ppc' = "done"
    /\ UNCHANGED <<CHUNK_SIZE, CHUNK_OVERLAP, split_vars, pages, page_i, all_chunks>>
    /\ UNCHANGED <<store_vars, gen_vars, app_vars>>

ValidConfig == 0 <= CHUNK_OVERLAP /\ CHUNK_OVERLAP < CHUNK_SIZE

(***************************************************************************)
(* embeddings/embeddings.py and the fragments offered to the store         *)
(***************************************************************************)
\* a vector of EMBEDDING_DIM numbers whose first two coordinates are a and b
Vec(a, b) ==
    Tuple([i \in 1..EMBEDDING_DIM |-> IF i = 1 THEN a ELSE IF i = 2 THEN b ELSE 0])
\* a vector one coordinate short of EMBEDDING_DIM
ShortVec(a) == Tuple([i \in 1..(EMBEDDING_DIM - 1) |-> IF i = 1 THEN a ELSE 0])

\* embed_chunks: chunk["embedding"] = embeddings[i]
Embed(chunk, e) ==
    [chunk_id    |-> chunk.chunk_id,
     text        |-> chunk.text,
     source      |-> chunk.source,
     page_number |-> chunk.page_number,
     embedding   |-> e]

\* fragments as chunk_pages and embed_chunks produce them: two from one page of
\* a.pdf, one from b.pdf at the same distance from the queries as the second,
\* and one whose embedding has the wrong length
frag1 == Embed(MakeChunk(<<"a", "b">>, "a.pdf", 1, 0), Vec(0, 0))
frag2 == Embed(MakeChunk(<<"b", "a">>, "a.pdf", 1, 1), Vec(1, 0))
frag3 == Embed(MakeChunk(<<"a", "a">>, "b.pdf", 1, 0), Vec(0, 1))
fragShort == Embed(MakeChunk(<<"b", "b">>, "b.pdf", 2, 0), ShortVec(1))
Pool == {frag1, frag2, frag3, fragShort}

\* the batches add_chunks is called with
Batches == UNION {[1..m -> Pool] : m \in 0..MaxStored}

\* the query embeddings search is called with, one of them of the wrong length
Queries == {Vec(0, 0), Vec(1, 1), ShortVec(1)}
Ks == (0 - 1)..MaxK

(***************************************************************************)
(* FAISS IndexFlatL2 as retrieval/vector_store.py uses it                  *)
(***************************************************************************)
Handles == {"A", "B"}
Builds == {"cmp2", "legacy"}

\* the value FAISS leaves in the distance slots it could not fill (the largest
\* float32); every real distance of the model is smaller
FLT_MAX == 1000000

\* astype('float32') of an integer: exact up to 2^24; between 2^24 and 2^25
\* the nearest even integer, a tie going to the multiple of 4
F32_EXACT == 16777216
AsFloat32Mag(m) ==
    IF m <= F32_EXACT \/ m % 2 = 0 THEN m
    ELSE IF (m - 1) % 4 = 0 THEN m - 1 ELSE m + 1
AsFloat32(x) == IF x < 0 THEN 0 - AsFloat32Mag(0 - x) ELSE AsFloat32Mag(x)
AsFloat32Vec(v) == Tuple([i \in DOMAIN v |-> AsFloat32(v[i])])

RECURSIVE SumSq(_, _, _)
SumSq(u, v, i) == IF i = 0 THEN 0 ELSE (u[i] - v[i]) * (u[i] - v[i]) + SumSq(u, v, i - 1)
\* squared Euclidean distance of two vectors of one length
L2Sqr(u, v) == SumSq(u, v, Len(u))

\* whether stored vector i (1-based) is reported before stored vector j, given
\* the distances d of the stored vectors to the query. The "cmp2" builds order
\* their result heap by (distance, id); older builds compare distances alone
\* and leave the order of equal distances to the heap, taken here as the
\* reverse of insertion order
RanksBefore(d, build, i, j) ==
    \/ d[i] < d[j]
    \/ /\ d[i] = d[j]
       /\ IF build = "cmp2" THEN i < j ELSE i > j

\* the stored vectors (1-based) in the order FAISS reports them for query q
FaissRanking(xb, q, build) ==
    LET n == Len(xb)
        d == Tuple([i \in 1..n |-> L2Sqr(xb[i], q)])
    IN Tuple([p \in 1..n |->
           CHOOSE i \in 1..n :
               Cardinality({j \in 1..n : RanksBefore(d, build, j, i)}) = p - 1])

\* whether self.index.search(query_vector, k) raises: the wrapper asserts
\* d == self.d, the "cmp2" builds assert k > 0 as well, and no build can
\* allocate the (1, k) result arrays for k < 0
FaissRaises(q, k, build) ==
    \/ Len(q) # EMBEDDING_DIM
    \/ k < 0
    \/ k = 0 /\ build = "cmp2"

\* indices[0] and distances[0] of self.index.search, slot by slot as
\* <<idx, distance>>: k slots, the nearest stored vectors first, and the slots
\* beyond ntotal filled with -1 and FLT_MAX
FaissSearch(xb, q, k, build) ==
    LET n == Len(xb)
        rank == FaissRanking(xb, q, build)
    IN Tuple([p \in 1..k |->
           IF p <= n THEN <<rank[p] - 1, L2Sqr(xb[rank[p]], q)>> ELSE <<0 - 1, FLT_MAX>>])

\* Python's s[i] for a 0-based i that may be negative, and whether it raises
\* IndexError
PyIndex(s, i) == IF i < 0 THEN s[Len(s) + i + 1] ELSE s[i + 1]
PyIndexRaises(s, i) == i >= Len(s) \/ i < 0 - Len(s)

\* the `if idx < len(self.chunks)` test of the result loop
KeepsIdx(idx, n) == idx < n

\* the result loop of VectorStore.search over the slots FAISS returned: the
\* (chunk, distance) of every slot that passes the test, in slot order
BuildResults(cs, slots) ==
    LET kept == SelectSeq(slots, LAMBDA s : KeepsIdx(s[1], Len(cs)))
    IN Tuple([i \in 1..Len(kept) |-> <<PyIndex(cs, kept[i][1]), kept[i][2]>>])

\* whether the result loop raises: a slot passes the test and self.chunks[idx]
\* is out of range (idx = -1 on an empty self.chunks)
ResultLoopRaises(cs, slots) ==
    \E p \in 1..Len(slots) : KeepsIdx(slots[p][1], Len(cs)) /\ PyIndexRaises(cs, slots[p][1])

\* the whole outcome of VectorStore.search: <<"raise", <<>>>> or <<"ok", results>>
SearchOutcome(xb, cs, q, k, build) ==
    IF FaissRaises(q, k, build) THEN <<"raise", <<>>>>
    ELSE LET slots == FaissSearch(xb, q, k, build)
         IN IF ResultLoopRaises(cs, slots) THEN <<"raise", <<>>>>
            ELSE <<"ok", BuildResults(cs, slots)>>

(***************************************************************************)
(* retrieval/vector_store.py: the operations of a VectorStore handle       *)
(***************************************************************************)
Absent == [state |-> "absent", gen |-> 0, data |-> <<>>]
Partial(g) == [state |-> "partial", gen |-> g, data |-> <<>>]
Full(g, d) == [state |-> "full", gen |-> g, data |-> d]

NoPre == [index |-> <<>>, chunks |-> <<>>, gen |-> 0]

\* the record kept of the step last taken: the handle, the operation, whether
\* the call is still running ("pending"), returned ("ok") or raised ("raise"),
\* the value returned, the arguments of a search, how many vectors and
\* fragments the handle held when a search or an add began, how many rows of
\* the batch of an add had an embedding of the wrong length, whether its vectors
\* and fragments are what they were when the call began, the generations of
\* the two artifacts a load read, and whether the snapshot a load was given
\* lacked an artifact, was unreadable or held sequences of unequal length
Outcome(h, op, status, value) ==
    [h |-> h, op |-> op, status |-> status, value |-> value,
     q |-> <<>>, k |-> 0, ntotal |-> 0, nchunks |-> 0, bad |-> 0, unchanged |-> TRUE,
     gens |-> <<0, 0>>, corrupt |-> FALSE]
NoOutcome == Outcome("A", "none", "ok", <<>>)

Idle(h) == pc[h] = "idle"

\* whether add_chunks raises before it changes anything: np.array of rows of
\* unequal length, an empty batch (no (n, d) shape), or d # self.d in index.add
AddRaises_FirstRowOnly(batch) ==
    \/ batch = <<>>
    \/ Len(batch[1].embedding) # EMBEDDING_DIM
AddRaises(batch) ==
    \/ batch = <<>>
    \/ \E i \in 1..Len(batch) : Len(batch[i].embedding) # EMBEDDING_DIM

\* the rows of a batch whose embedding has another length than the index
BadRows(batch) == {i \in 1..Len(batch) : Len(batch[i].embedding) # EMBEDDING_DIM}

\* the rows index.add appends
AddedVectors(batch) == Tuple([i \in 1..Len(batch) |-> AsFloat32Vec(batch[i].embedding)])

\* what index.add and list.extend leave: the rows held, then the new ones
Extended_Replaced(held, new) == new
Extended(held, new) == held \o new

\* VectorStore.add_chunks
AddChunks(h, batch) ==
    /\ Idle(h)
    /\ Len(chunks[h]) + Len(batch) <= MaxStored
    /\ IF AddRaises(batch)
       THEN /\ last' = [Outcome(h, "add", "raise", Len(batch)) EXCEPT
                            !.ntotal = Len(index[h]), !.nchunks = Len(chunks[h]),
                            !.bad = Cardinality(BadRows(batch))]
            /\ UNCHANGED <<index, chunks>>
       ELSE /\ index' = [index EXCEPT ![h] = Extended(index[h], AddedVectors(batch))]
            /\ chunks' = [chunks EXCEPT ![h] = Extended(chunks[h], batch)]
            /\ last' = [Outcome(h, "add", "ok", Len(batch)) EXCEPT
                            !.ntotal = Len(index[h]), !.nchunks = Len(chunks[h]),
                            !.unchanged = FALSE]
    /\ UNCHANGED <<faiss_build, file_index, file_chunks, pc, pre, nsaves, snap>>
    /\ UNCHANGED <<chunker_vars, gen_vars, app_vars>>

\* a search that takes the fragments it returns out of self.chunks
\* (self.chunks.pop(idx) for self.chunks[idx])
Search_Popping(h, q, k) ==
    /\ Idle(h)
    /\ LET out == SearchOutcome(index[h], chunks[h], q, k, faiss_build)
           hit == {out[2][i][1] : i \in 1..Len(out[2])}
       IN /\ last' = [Outcome(h, "search", out[1], out[2]) EXCEPT
                          !.q = q, !.k = k,
                          !.ntotal = Len(index[h]), !.nchunks = Len(chunks[h])]
          /\ chunks' = [chunks EXCEPT
                            ![h] = SelectSeq(chunks[h], LAMBDA c : c \notin hit)]
    /\ UNCHANGED <<faiss_build, index, file_index, file_chunks, pc, pre, nsaves, snap>>
    /\ UNCHANGED <<chunker_vars, gen_vars, app_vars>>

\* VectorStore.search
Search(h, q, k) ==
    /\ Idle(h)
    /\ LET out == SearchOutcome(index[h], chunks[h], q, k, faiss_build)
       IN last' = [Outcome(h, "search", out[1], out[2]) EXCEPT
                       !.q = q, !.k = k,
                       !.ntotal = Len(index[h]), !.nchunks = Len(chunks[h])]
    /\ UNCHANGED <<faiss_build, index, chunks, file_index, file_chunks, pc, pre, nsaves, snap>>
    /\ UNCHANGED <<chunker_vars, gen_vars, app_vars>>

\* save_to_disk up to the moment faiss.write_index has opened faiss.index for
\* writing. Callers serialise writers, so no other save is running
SaveOpenIndex(h) ==
    /\ Idle(h)
    /\ \A g \in Handles : pc[g] \notin {"save_index", "save_open_chunks", "save_chunks"}
    /\ nsaves < MaxSaves
    /\ nsaves' = nsaves + 1
    /\ snap' = [index |-> index[h], chunks |-> chunks[h]]
    /\ file_index' = Partial(nsaves + 1)
    /\ pc' = [pc EXCEPT ![h] = "save_index"]
    /\ last' = Outcome(h, "save", "pending", <<>>)
    /\ UNCHANGED <<faiss_build, index, chunks, file_chunks, pre>>
    /\ UNCHANGED <<chunker_vars, gen_vars, app_vars>>

\* what faiss.write_index leaves in faiss.index
WrittenIndex(h) == index[h]

\* faiss.write_index completes
SaveWriteIndex(h) ==
    /\ pc[h] = "save_index"
    /\ file_index' = Full(nsaves, WrittenIndex(h))
    /\ pc' = [pc EXCEPT ![h] = "save_open_chunks"]
    /\ last' = Outcome(h, "save", "pending", <<>>)
    /\ UNCHANGED <<faiss_build, index, chunks, file_chunks, pre, nsaves, snap>>
    /\ UNCHANGED <<chunker_vars, gen_vars, app_vars>>

\* open(chunks_path, "wb") truncates chunks.pkl
SaveOpenChunks(h) ==
    /\ pc[h] = "save_open_chunks"
    /\ file_chunks' = Partial(nsaves)
    /\ pc' = [pc EXCEPT ![h] = "save_chunks"]
    /\ last' = Outcome(h, "save", "pending", <<>>)
    /\ UNCHANGED <<faiss_build, index, chunks, file_index, pre, nsaves, snap>>
    /\ UNCHANGED <<chunker_vars, gen_vars, app_vars>>

\* pickle.dump completes, the file is closed and save_to_disk returns
SaveWriteChunks(h) ==
    /\ pc[h] = "save_chunks"
    /\ file_chunks' = Full(nsaves, chunks[h])
    /\ pc' = [pc EXCEPT ![h] = "idle"]
    /\ last' = Outcome(h, "save", "ok", <<>>)
    /\ UNCHANGED <<faiss_build, index, chunks, file_index, pre, nsaves, snap>>
    /\ UNCHANGED <<chunker_vars, gen_vars, app_vars>>

\* the os.path.exists test of load_from_disk: a file being written exists
ArtifactMissing_Both == file_index.state = "absent" /\ file_chunks.state = "absent"
ArtifactMissing == file_index.state = "absent" \/ file_chunks.state = "absent"

\* load_from_disk up to the exists test: return False, or go on to read
LoadCheck(h) ==
    /\ Idle(h)
    /\ IF ArtifactMissing
       THEN /\ last' = [Outcome(h, "load", "ok", FALSE) EXCEPT !.corrupt = TRUE]
            /\ UNCHANGED <<pc, pre>>
       ELSE /\ pc' = [pc EXCEPT ![h] = "load_index"]
            /\ pre' = [pre EXCEPT ![h] = [index |-> index[h], chunks |-> chunks[h], gen |-> 0]]
            /\ last' = Outcome(h, "load", "pending", <<>>)
    /\ UNCHANGED <<faiss_build, index, chunks, file_index, file_chunks, nsaves, snap>>
    /\ UNCHANGED <<chunker_vars, gen_vars, app_vars>>

\* a file that cannot be read back: missing, or truncated by a write in progress
Unreadable(f) == f.state # "full"

\* self.index = faiss.read_index(index_path); a file still being written is
\* truncated and read_index raises
LoadIndex(h) ==
    /\ pc[h] = "load_index"
    /\ IF Unreadable(file_index)
       THEN /\ pc' = [pc EXCEPT ![h] = "idle"]
            /\ pre' = [pre EXCEPT ![h] = NoPre]
            /\ last' = [Outcome(h, "load", "raise", <<>>) EXCEPT !.corrupt = TRUE]
            /\ UNCHANGED index
       ELSE /\ index' = [index EXCEPT ![h] = file_index.data]
            /\ pc' = [pc EXCEPT ![h] = "load_chunks"]
            /\ pre' = [pre EXCEPT ![h].gen = file_index.gen]
            /\ last' = Outcome(h, "load", "pending", <<>>)
    /\ UNCHANGED <<faiss_build, chunks, file_index, file_chunks, nsaves, snap>>
    /\ UNCHANGED <<chunker_vars, gen_vars, app_vars>>

\* what pickle.load returns for chunks.pkl
ReadChunks_Reversed(d) == Tuple([i \in 1..Len(d) |-> d[Len(d) + 1 - i]])
ReadChunks(d) == d

\* self.chunks = pickle.load(f) and return True; a file still being written
\* is truncated and pickle.load raises, after self.index was replaced
LoadChunks(h) ==
    /\ pc[h] = "load_chunks"
    /\ IF Unreadable(file_chunks)
       THEN /\ last' = [Outcome(h, "load", "raise", <<>>) EXCEPT
                            !.corrupt = TRUE,
                            !.unchanged = (index[h] = pre[h].index)]
            /\ UNCHANGED chunks
       ELSE /\ chunks' = [chunks EXCEPT ![h] = ReadChunks(file_chunks.data)]
            /\ last' = [Outcome(h, "load", "ok", TRUE) EXCEPT
                            !.gens = <<pre[h].gen, file_chunks.gen>>,
                            !.corrupt = (Len(index[h]) # Len(file_chunks.data)),
                            !.unchanged = (/\ index[h] = pre[h].index
                                           /\ chunks'[h] = pre[h].chunks)]
    /\ pc' = [pc EXCEPT ![h] = "idle"]
    /\ pre' = [pre EXCEPT ![h] = NoPre]
    /\ UNCHANGED <<faiss_build, index, file_index, file_chunks, nsaves, snap>>
    /\ UNCHANGED <<chunker_vars, gen_vars, app_vars>>

(***************************************************************************)
(* rag/pipeline.py and rag/pipelinecloud.py: generate_answer               *)
(***************************************************************************)
\* round(x, 2) of x = 1 / (1 + distance), in hundredths: the nearest
\* hundredth, a tie going to the even one
Round2OfInverse(n) ==
    LET q == 100 \div n
        r == 100 % n
    IN IF 2 * r < n THEN q
       ELSE IF 2 * r > n THEN q + 1
       ELSE IF q % 2 = 0 THEN q ELSE q + 1

\* 'relevance': round(1 / (1 + distance), 2), in hundredths
Relevance(distance) == Round2OfInverse(1 + distance)

\* the dict source_info built for one (chunk, distance)
SourceInfo(chunk, distance) ==
    [source |-> chunk.source, page |-> chunk.page_number, relevance |-> Relevance(distance)]

InSeq(x, s) == \E i \in 1..Len(s) : s[i] = x

\* the loop `for chunk, distance in retrieved_chunks` over entries p..end,
\* `if source_info not in sources: sources.append(source_info)`
RECURSIVE ExtractSources(_, _, _)
ExtractSources(retrieved, sources, p) ==
    IF p > Len(retrieved) THEN sources
    ELSE LET source_info == SourceInfo(retrieved[p][1], retrieved[p][2])
         IN ExtractSources(retrieved,
                IF InSeq(source_info, sources) THEN sources
                ELSE Append(sources, source_info),
                p + 1)

\* a fragment's text, a sequence of characters, as one string
RECURSIVE Str(_)
Str(cs) == IF cs = <<>> THEN "" ELSE Head(cs) \o Str(Tail(cs))

\* f"[Source: {chunk['source']}, Page {chunk['page_number']}]"
SourceHeader(chunk) ==
    "[Source: " \o chunk.source \o ", Page " \o ToString(chunk.page_number) \o "]"

\* f"Chunk {i} {source_info}:\n{chunk_text}\n"
ContextPart(i, chunk) ==
    "Chunk " \o ToString(i) \o " " \o SourceHeader(chunk) \o ":\n" \o Str(chunk.text) \o "\n"

\* context_parts after the loop `for i, (chunk, distance) in
\* enumerate(retrieved_chunks, 1)`
ContextParts_Merged(retrieved) ==
    LET firsts == SelectSeq(Tuple([i \in 1..Len(retrieved) |-> <<i, retrieved[i]>>]),
                            LAMBDA e : \A j \in 1..(e[1] - 1) : retrieved[j][1] # e[2][1])
    IN Tuple([i \in 1..Len(firsts) |-> ContextPart(i, firsts[i][2][1])])
ContextParts(retrieved) ==
    Tuple([i \in 1..Len(retrieved) |-> ContextPart(i, retrieved[i][1])])

\* sep.join(parts)
RECURSIVE Join(_, _)
Join(sep, parts) ==
    IF parts = <<>> THEN ""
    ELSE IF Len(parts) = 1 THEN parts[1]
    ELSE parts[1] \o sep \o Join(sep, Tail(parts))

Pipelines == {"local", "cloud"}

NoGen == [status |-> "off", answer |-> "", sources |-> <<>>]

\* whether generate_answer gets as far as the generator: the cloud pipeline
\* raises ValueError first when it finds no API token
ReachesGenerator == pipeline = "local" \/ api_token

\* generate_answer when the generator answers: build the context, call the
\* generator, return {'answer', 'sources'}
GenerateAnswerReturns ==
    /\ gen_out.status = "ready"
    /\ ReachesGenerator
    /\ context_parts' = ContextParts(retrieved_chunks)
    /\ context' = Join("\n", context_parts')
    /\ llm_calls' = llm_calls + 1
    /\ gen_out' = [status  |-> "ok",
                   answer  |-> "answer",
                   sources |-> ExtractSources(retrieved_chunks, <<>>, 1)]
    /\ UNCHANGED <<pipeline, api_token, retrieved_chunks>>
    /\ UNCHANGED <<chunker_vars, store_vars, app_vars>>

\* how many times generate_answer calls a generator that fails: the call is in
\* no loop, and the except clause of the cloud pipeline raises again
AttemptsOnFailure_Retry == 1 + 1
AttemptsOnFailure == 1

\* generate_answer when the generator call fails: ollama.chat raises, or
\* requests.post raises (transport error, timeout) or answers with a status
\* other than 200, which the except clause reports and raises again
GenerateAnswerRaises ==
    /\ gen_out.status = "ready"
    /\ ReachesGenerator
    /\ context_parts' = ContextParts(retrieved_chunks)
    /\ context' = Join("\n", context_parts')
    /\ llm_calls' = llm_calls + AttemptsOnFailure
    /\ gen_out' = [status |-> "raise", answer |-> "", sources |-> <<>>]
    /\ UNCHANGED <<pipeline, api_token, retrieved_chunks>>
    /\ UNCHANGED <<chunker_vars, store_vars, app_vars>>

\* generate_answer of the cloud pipeline without an API token: `raise
\* ValueError` before the context is built and before any request is sent
GenerateAnswerNoToken ==
    /\ gen_out.status = "ready"
    /\ ~ReachesGenerator
    /\ gen_out' = [status |-> "raise", answer |-> "", sources |-> <<>>]
    /\ UNCHANGED <<pipeline, api_token, retrieved_chunks, context_parts, context, llm_calls>>
    /\ UNCHANGED <<chunker_vars, store_vars, app_vars>>

(***************************************************************************)
(* frontend/app.py: the Process Documents handler and the chat handler     *)
(***************************************************************************)
\* the documents a user can upload: two readable ones with text, and one that
\* is no valid PDF (fitz.open raises)
Docs ==
    {[name |-> "a.pdf", kind |-> "ok"], [name |-> "b.pdf", kind |-> "ok"],
     [name |-> "c.pdf", kind |-> "corrupt"]}

\* the lists of documents of one upload, no document twice
Uploads ==
    {fs \in UNION {[1..m -> Docs] : m \in 1..MaxFiles} :
        \A i, j \in 1..Len(fs) : fs[i] = fs[j] => i = j}

\* whether load_pdf raises: the file was just written, so it exists, and
\* fitz.open raises on a file that is no PDF
LoadPdfRaises(doc) == doc.kind = "corrupt"

\* a fragment as the chunker leaves it, before embed_chunks adds the embedding
Unembedded(c) ==
    [chunk_id |-> c.chunk_id, text |-> c.text, source |-> c.source,
     page_number |-> c.page_number]

\* chunk_pages(load_pdf(file_path)) for a document load_pdf can read
DocChunks(doc) ==
    IF doc.name = "a.pdf" THEN <<Unembedded(frag1), Unembedded(frag2)>>
    ELSE <<Unembedded(frag3)>>

\* model.encode for the text of a fragment
ModelEncode(c) ==
    IF c.chunk_id = frag1.chunk_id /\ c.source = frag1.source THEN frag1.embedding
    ELSE IF c.chunk_id = frag2.chunk_id /\ c.source = frag2.source THEN frag2.embedding
    ELSE frag3.embedding

\* embed_chunks: every chunk of the list gets its embedding
EmbedChunks(cs) == Tuple([i \in 1..Len(cs) |-> Embed(cs[i], ModelEncode(cs[i]))])

None == [some |-> FALSE, index |-> <<>>, chunks |-> <<>>]
Store(xb, cs) == [some |-> TRUE, index |-> xb, chunks |-> cs]

\* the except clause of the handler: report the error; the session state is
\* not touched
ProcessFails(step) ==
    /\ ipc' = "idle"
    /\ ing_result' = step

\* the button is pressed with uploaded files: the handler starts its run
ProcessStart ==
    /\ ipc = "idle"
    /\ qpc = "idle"
    /\ nsaves < MaxSaves
    /\ \E fs \in Uploads : uploaded_files' = fs
    /\ file_i' = 0
    /\ batch_chunks' = <<>>
    /\ processed_names' = <<>>
    /\ vector_store' = None
    /\ ipc' = "loop"
    /\ ing_result' = "running"
    /\ session_before' = <<session_vector_store, session_processed_files>>
    /\ UNCHANGED <<session_vars, query_vars>>
    /\ UNCHANGED <<chunker_vars, store_vars, gen_vars>>

\* one iteration of `for uploaded_file in uploaded_files`: save the file,
\* load_pdf, chunk_pages, extend all_chunks, append the name. An exception
\* of load_pdf leaves the loop for the except clause of the handler
ProcessFile ==
    /\ ipc = "loop"
    /\ file_i < Len(uploaded_files)
    /\ LET doc == uploaded_files[file_i + 1]
       IN IF LoadPdfRaises(doc)
          THEN /\ ProcessFails("load")
               /\ UNCHANGED <<file_i, batch_chunks, processed_names>>
          ELSE /\ file_i' = file_i + 1
               /\ batch_chunks' = batch_chunks \o DocChunks(doc)
               /\ processed_names' = Append(processed_names, doc.name)
               /\ UNCHANGED <<ipc, ing_result>>
    /\ UNCHANGED <<session_before, uploaded_files, vector_store, session_vars, query_vars>>
    /\ UNCHANGED <<chunker_vars, store_vars, gen_vars>>

\* embed_chunks(all_chunks) returns: the chunks of the list hold their
\* embeddings
ProcessEmbed ==
    /\ ipc = "loop"
    /\ file_i = Len(uploaded_files)
    /\ batch_chunks # <<>>
    /\ batch_chunks' = EmbedChunks(batch_chunks)
    /\ ipc' = "add"
    /\ UNCHANGED <<session_before, uploaded_files, file_i, processed_names, vector_store, ing_result>>
    /\ UNCHANGED <<session_vars, query_vars>>
    /\ UNCHANGED <<chunker_vars, store_vars, gen_vars>>

\* embed_chunks(all_chunks) raises: the embedder fails
ProcessEmbedRaises ==
    /\ ipc = "loop"
    /\ file_i = Len(uploaded_files)
    /\ ProcessFails("embed")
    /\ UNCHANGED <<session_before, uploaded_files, file_i, batch_chunks, processed_names, vector_store>>
    /\ UNCHANGED <<session_vars, query_vars>>
    /\ UNCHANGED <<chunker_vars, store_vars, gen_vars>>

\* a handler that builds its index in the session state: the session's store
\* is the new one from add_chunks on
ProcessAdd_InSession ==
    /\ ipc = "add"
    /\ IF AddRaises(batch_chunks)
       THEN /\ ProcessFails("add")
            /\ UNCHANGED <<vector_store, session_vector_store>>
       ELSE /\ vector_store' = Store(Extended(<<>>, AddedVectors(batch_chunks)),
                                     Extended(<<>>, batch_chunks))
            /\ session_vector_store' = vector_store'
            /\ ipc' = "save"
            /\ UNCHANGED ing_result
    /\ UNCHANGED <<session_before, uploaded_files, file_i, batch_chunks, processed_names>>
    /\ UNCHANGED <<session_processed_files, query_vars>>
    /\ UNCHANGED <<chunker_vars, store_vars, gen_vars>>

\* vector_store = VectorStore(); vector_store.add_chunks(embedded_chunks)
ProcessAdd ==
    /\ ipc = "add"
    /\ IF AddRaises(batch_chunks)
       THEN /\ ProcessFails("add")
            /\ UNCHANGED vector_store
       ELSE /\ vector_store' = Store(Extended(<<>>, AddedVectors(batch_chunks)),
                                     Extended(<<>>, batch_chunks))
            /\ ipc' = "save"
            /\ UNCHANGED ing_result
    /\ UNCHANGED <<session_before, uploaded_files, file_i, batch_chunks, processed_names>>
    /\ UNCHANGED <<session_vars, query_vars>>
    /\ UNCHANGED <<chunker_vars, store_vars, gen_vars>>

\* vector_store.save_to_disk() returns: both artifacts are written
ProcessSave ==
    /\ ipc = "save"
    /\ nsaves' = nsaves + 1
    /\ file_index' = Full(nsaves + 1, vector_store.index)
    /\ file_chunks' = Full(nsaves + 1, vector_store.chunks)
    /\ ipc' = "commit"
    /\ UNCHANGED <<session_before, uploaded_files, file_i, batch_chunks, processed_names, vector_store,
                   ing_result>>
    /\ UNCHANGED <<session_vars, query_vars>>
    /\ UNCHANGED <<faiss_build, index, chunks, pc, pre, snap, last>>
    /\ UNCHANGED <<chunker_vars, gen_vars>>

\* vector_store.save_to_disk() raises (the disk is full, the directory is not
\* writable) while it writes faiss.index or while it writes chunks.pkl
ProcessSaveRaises ==
    /\ ipc = "save"
    /\ nsaves' = nsaves + 1
    /\ \/ /\ file_index' = Partial(nsaves + 1)
          /\ UNCHANGED file_chunks
       \/ /\ file_index' = Full(nsaves + 1, vector_store.index)
          /\ file_chunks' = Partial(nsaves + 1)
    /\ ProcessFails("save")
    /\ UNCHANGED <<session_before, uploaded_files, file_i, batch_chunks, processed_names, vector_store>>
    /\ UNCHANGED <<session_vars, query_vars>>
    /\ UNCHANGED <<faiss_build, index, chunks, pc, pre, snap, last>>
    /\ UNCHANGED <<chunker_vars, gen_vars>>

\* st.session_state.vector_store = vector_store;
\* st.session_state.processed_files = processed_names
ProcessCommit ==
    /\ ipc = "commit"
    /\ session_vector_store' = vector_store
    /\ session_processed_files' = processed_names
    /\ ipc' = "idle"
    /\ ing_result' = "ok"
    /\ UNCHANGED <<session_before, uploaded_files, file_i, batch_chunks, processed_names, vector_store>>
    /\ UNCHANGED query_vars
    /\ UNCHANGED <<chunker_vars, store_vars, gen_vars>>

\* config.TOP_K_RESULTS, the default k of VectorStore.search
TOP_K_RESULTS == MaxK

\* the except clause of the chat handler: report the error
QueryFails(call) ==
    /\ qpc' = "idle"
    /\ query_result' = call

\* a question is entered: query_embedding = embed_text(question), which
\* returns a vector or raises
QueryEmbed ==
    /\ qpc = "idle"
    /\ ipc = "idle"
    /\ session_vector_store.some
    /\ call_log' = <<"embed">>
    /\ search_result' = <<>>
    /\ retrieved_chunks' = <<>>
    /\ context_parts' = <<>>
    /\ context' = ""
    /\ llm_calls' = 0
    /\ gen_out' = NoGen
    /\ \/ \E q \in Queries :
             /\ query_embedding' = q
             /\ qpc' = "embedded"
             /\ query_result' = "running"
       \/ /\ QueryFails("embed")
          /\ query_embedding' = <<>>
    /\ UNCHANGED <<pipeline, api_token>>
    /\ UNCHANGED <<ingest_vars, session_vars>>
    /\ UNCHANGED <<chunker_vars, store_vars>>

\* retrieved_chunks = st.session_state.vector_store.search(query_embedding)
QuerySearch ==
    /\ qpc = "embedded"
    /\ call_log' = Append(call_log, "search")
    /\ LET out == SearchOutcome(session_vector_store.index, session_vector_store.chunks,
                                query_embedding, TOP_K_RESULTS, faiss_build)
       IN IF out[1] = "raise"
          THEN /\ QueryFails("search")
               /\ query_embedding' = <<>>
               /\ UNCHANGED search_result
          ELSE /\ search_result' = out[2]
               /\ qpc' = "searched"
               /\ UNCHANGED <<query_embedding, query_result>>
    /\ UNCHANGED <<ingest_vars, session_vars>>
    /\ UNCHANGED <<chunker_vars, store_vars, gen_vars>>

\* the list the chat handler passes to generate_answer
HandedToGenerator_AllButLast(results) == SubSeq(results, 1, Len(results) - 1)
HandedToGenerator(results) == results

\* result = generate_answer(question, retrieved_chunks): the call is made
QueryGenerate ==
    /\ qpc = "searched"
    /\ call_log' = Append(call_log, "generate")
    /\ retrieved_chunks' = HandedToGenerator(search_result)
    /\ gen_out' = [status |-> "ready", answer |-> "", sources |-> <<>>]
    /\ qpc' = "generating"
    /\ UNCHANGED <<pipeline, api_token, context_parts, context, llm_calls>>
    /\ UNCHANGED <<query_embedding, search_result, query_result>>
    /\ UNCHANGED <<ingest_vars, session_vars>>
    /\ UNCHANGED <<chunker_vars, store_vars>>

\* generate_answer returned (the answer and its sources are shown and kept in
\* the chat history) or raised (the except clause reports the error); the
\* script run ends and its locals are gone
QueryFinish ==
    /\ qpc = "generating"
    /\ gen_out.status \in {"ok", "raise"}
    /\ qpc' = "idle"
    /\ query_result' = IF gen_out.status = "ok" THEN "ok" ELSE "generate"
    /\ query_embedding' = <<>>
    /\ search_result' = <<>>
    /\ retrieved_chunks' = <<>>
    /\ context_parts' = <<>>
    /\ context' = ""
    /\ gen_out' = NoGen
    /\ UNCHANGED <<pipeline, api_token, llm_calls, call_log>>
    /\ UNCHANGED <<ingest_vars, session_vars>>
    /\ UNCHANGED <<chunker_vars, store_vars>>

(***************************************************************************)
(* Initial states and specifications                                       *)
(***************************************************************************)
\* chunk_pages is not running
PagesOff ==
    /\ pages = <<>>
    /\ page_i = 0
    /\ all_chunks = <<>>
    /\ ppc = "off"

ChunkerOff ==
    /\ CHUNK_SIZE = 1
    /\ CHUNK_OVERLAP = 0
    /\ text = <<>>
    /\ source = PageSource
    /\ page_number = PageNumber
    /\ PagesOff
    /\ start = 0
    /\ chunk_index = 0
    /\ page_chunks = <<>>
    /\ cuts = <<>>
    /\ cpc = "off"

StoreOff ==
    /\ faiss_build = "cmp2"
    /\ index = [h \in Handles |-> <<>>]
    /\ chunks = [h \in Handles |-> <<>>]
    /\ file_index = Absent
    /\ file_chunks = Absent
    /\ pc = [h \in Handles |-> "off"]
    /\ pre = [h \in Handles |-> NoPre]
    /\ nsaves = 0
    /\ snap = [index |-> <<>>, chunks |-> <<>>]
    /\ last = NoOutcome

GenOff ==
    /\ pipeline = "local"
    /\ api_token = FALSE
    /\ retrieved_chunks = <<>>
    /\ context_parts = <<>>
    /\ context = ""
    /\ llm_calls = 0
    /\ gen_out = NoGen

\* no session of the web interface
AppOff ==
    /\ uploaded_files = <<>>
    /\ file_i = 0
    /\ batch_chunks = <<>>
    /\ processed_names = <<>>
    /\ vector_store = None
    /\ ipc = "off"
    /\ ing_result = "none"
    /\ session_before = <<None, <<>>>>
    /\ session_vector_store = None
    /\ session_processed_files = <<>>
    /\ qpc = "off"
    /\ query_embedding = <<>>
    /\ search_result = <<>>
    /\ call_log = <<>>
    /\ query_result = "none"

\* VectorStore.__init__ on every handle, over an empty snapshot directory
StoreInit ==
    /\ index = [h \in Handles |-> <<>>]
    /\ chunks = [h \in Handles |-> <<>>]
    /\ file_index = Absent
    /\ file_chunks = Absent
    /\ pre = [h \in Handles |-> NoPre]
    /\ nsaves = 0
    /\ snap = [index |-> <<>>, chunks |-> <<>>]
    /\ last = NoOutcome

\* Two sessions over one snapshot directory: handle "A" ingests, persists and
\* restores; handle "B" ingests one fragment while it holds none and restores
\* what "A" persisted; both search.
Init ==
    /\ StoreInit
    /\ faiss_build = "cmp2"
    /\ pc = [h \in Handles |-> "idle"]
    /\ ChunkerOff
    /\ GenOff
    /\ AppOff

Next ==
    \/ \E batch \in Batches : AddChunks("A", batch)
    \/ (index["B"] = <<>> /\ AddChunks("B", <<frag3>>))
    \/ SaveOpenIndex("A")
    \/ SaveWriteIndex("A")
    \/ SaveOpenChunks("A")
    \/ SaveWriteChunks("A")
    \/ \E h \in Handles :
        \/ Search(h, Vec(0, 0), MaxK)
        \/ LoadCheck(h)
        \/ LoadIndex(h)
        \/ LoadChunks(h)

Spec == Init /\ [][Next]_vars

\* One handle that ingests and is searched, under either FAISS build
SearchInit ==
    /\ StoreInit
    /\ faiss_build \in Builds
    /\ pc = [h \in Handles |-> IF h = "A" THEN "idle" ELSE "off"]
    /\ ChunkerOff
    /\ GenOff
    /\ AppOff

SearchNext ==
    \/ \E batch \in Batches : AddChunks("A", batch)
    \/ \E q \in Queries, k \in Ks : Search("A", q, k)

SpecSearch == SearchInit /\ [][SearchNext]_vars

\* One handle that ingests, is searched and persists, and never restores
AppendNext ==
    \/ \E batch \in Batches : AddChunks("A", batch)
    \/ \E q \in Queries, k \in Ks : Search("A", q, k)
    \/ SaveOpenIndex("A")
    \/ SaveWriteIndex("A")
    \/ SaveOpenChunks("A")
    \/ SaveWriteChunks("A")

SpecAppend == SearchInit /\ [][AppendNext]_vars

\* split_text_into_chunks entered with a text and a configuration
ChunkInit ==
    /\ CHUNK_SIZE \in 1..MaxChunkSize
    /\ CHUNK_OVERLAP \in 0..MaxChunkSize
    /\ text \in TextsUpTo(MaxLen)
    /\ source = PageSource
    /\ page_number = PageNumber
    /\ PagesOff
    /\ start = 0
    /\ chunk_index = 0
    /\ page_chunks = <<>>
    /\ cuts = <<>>
    /\ cpc = "loop"
    /\ StoreOff
    /\ GenOff
    /\ AppOff

ChunkNext == ChunkStep \/ ChunkReturn

SpecChunk == ChunkInit /\ [][ChunkNext]_vars

\* the same, with the interpreter running the loop on: an iteration or a
\* return that can be taken is taken
SpecChunkLive == ChunkInit /\ [][ChunkNext]_vars /\ WF_vars(ChunkNext)

\* the pages load_pdf hands over: a file name, a page number from 1 and a
\* text that is neither empty nor padded; one file name ends like a fragment id
PageSources == {"a.pdf", "a.pdf_page1"}
PageNumbers == {1, 11}
PageTexts == {Tuple([i \in 1..n |-> "a"]) : n \in 1..MaxPageLen}
Pages == [page_number : PageNumbers, text : PageTexts, source : PageSources]

\* the lists of pages chunk_pages is called with: no page of a file twice
PageLists ==
    {ps \in UNION {[1..m -> Pages] : m \in 0..MaxPages} :
        \A i, j \in 1..Len(ps) :
            (ps[i].source = ps[j].source /\ ps[i].page_number = ps[j].page_number) => i = j}

\* chunk_pages entered with a list of pages and a configuration
PagesInit ==
    /\ CHUNK_SIZE \in 1..MaxChunkSize
    /\ CHUNK_OVERLAP \in 0..MaxChunkSize
    /\ pages \in PageLists
    /\ page_i = 0
    /\ all_chunks = <<>>
    /\ ppc = "loop"
    /\ text = <<>>
    /\ source = PageSource
    /\ page_number = PageNumber
    /\ start = 0
    /\ chunk_index = 0
    /\ page_chunks = <<>>
    /\ cuts = <<>>
    /\ cpc = "off"
    /\ StoreOff
    /\ GenOff
    /\ AppOff

PagesNext ==
    \/ ChunkPagesEnter
    \/ ChunkStep
    \/ ChunkReturn
    \/ ChunkPagesExtend
    \/ ChunkPagesReturn

SpecPages == PagesInit /\ [][PagesNext]_vars

\* the fragments a store can hold, and the lists search returns for them
ValidPool == {c \in Pool : Len(c.embedding) = EMBEDDING_DIM}
Stores == UNION {[1..m -> ValidPool] : m \in 0..MaxStored}
EmbeddingsOf(cs) == AddedVectors(cs)

\* generate_answer entered with a list VectorStore.search returned
GenInit ==
    /\ \E cs \in Stores, q \in Queries, k \in 1..MaxK, build \in Builds :
          /\ SearchOutcome(EmbeddingsOf(cs), cs, q, k, build)[1] = "ok"
          /\ retrieved_chunks = SearchOutcome(EmbeddingsOf(cs), cs, q, k, build)[2]
    /\ pipeline \in Pipelines
    /\ api_token \in BOOLEAN
    /\ pipeline = "local" => api_token = FALSE
    /\ context_parts = <<>>
    /\ context = ""
    /\ llm_calls = 0
    /\ gen_out = [status |-> "ready", answer |-> "", sources |-> <<>>]
    /\ ChunkerOff
    /\ StoreOff
    /\ AppOff

GenNext == GenerateAnswerReturns \/ GenerateAnswerRaises \/ GenerateAnswerNoToken

SpecGen == GenInit /\ [][GenNext]_vars

\* A session of the web interface, as the script leaves it on its first run:
\* no vector store, no processed files; over an empty snapshot directory
AppInit ==
    /\ uploaded_files = <<>>
    /\ file_i = 0
    /\ batch_chunks = <<>>
    /\ processed_names = <<>>
    /\ vector_store = None
    /\ ipc = "idle"
    /\ ing_result = "none"
    /\ session_before = <<None, <<>>>>
    /\ session_vector_store = None
    /\ session_processed_files = <<>>
    /\ qpc = "idle"
    /\ query_embedding = <<>>
    /\ search_result = <<>>
    /\ call_log = <<>>
    /\ query_result = "none"
    /\ StoreInit
    /\ faiss_build \in Builds
    /\ pc = [h \in Handles |-> "off"]
    /\ pipeline \in Pipelines
    /\ api_token \in BOOLEAN
    /\ pipeline = "local" => api_token = FALSE
    /\ retrieved_chunks = <<>>
    /\ context_parts = <<>>
    /\ context = ""
    /\ llm_calls = 0
    /\ gen_out = NoGen
    /\ ChunkerOff

AppNext ==
    \/ ProcessStart
    \/ ProcessFile
    \/ ProcessEmbed
    \/ ProcessEmbedRaises
    \/ ProcessAdd
    \/ ProcessSave
    \/ ProcessSaveRaises
    \/ ProcessCommit
    \/ QueryEmbed
    \/ QuerySearch
    \/ QueryGenerate
    \/ GenerateAnswerReturns
    \/ GenerateAnswerRaises
    \/ GenerateAnswerNoToken
    \/ QueryFinish

SpecApp == AppInit /\ [][AppNext]_vars

(***************************************************************************)
(* Claims                                                                  *)
(***************************************************************************)
NonDecreasing(results) ==
    \A i \in 1..(Len(results) - 1) : results[i][2] <= results[i + 1][2]

\* C1: search(q, k) returns exactly min(k, total_stored) results, ordered by
\* non-decreasing distance, also when k exceeds the number of stored vectors.
C1_SearchReturnsMinKTotal ==
    (last.op = "search" /\ last.status = "ok") =>
        /\ Len(last.value) = Min(last.k, last.ntotal)
        /\ NonDecreasing(last.value)

\* the results that are the first of their (source, page_number) pair
FirstOfPair(retrieved) ==
    SelectSeq(Tuple([i \in 1..Len(retrieved) |-> <<i, retrieved[i]>>]),
              LAMBDA e : \A j \in 1..(e[1] - 1) :
                  \/ retrieved[j][1].source # e[2][1].source
                  \/ retrieved[j][1].page_number # e[2][1].page_number)

\* C2: the citation list of generate_answer holds at most one entry per
\* distinct (source, page_number) pair, the one built from the first result
\* with that pair, in first-occurrence order.
C2_OneCitationPerSourcePage ==
    gen_out.status = "ok" =>
        LET firsts == FirstOfPair(retrieved_chunks)
        IN /\ \A i, j \in 1..Len(gen_out.sources) :
                  (/\ gen_out.sources[i].source = gen_out.sources[j].source
                   /\ gen_out.sources[i].page = gen_out.sources[j].page) => i = j
           /\ Len(gen_out.sources) = Len(firsts)
           /\ \A i \in 1..Len(firsts) :
                  gen_out.sources[i] = SourceInfo(firsts[i][2][1], firsts[i][2][2])

\* C3 as stated: for 0 <= O < S a text of length L gives n fragments, n = 1 if
\* L <= S and ceil((L-O)/(S-O)) otherwise, the last covering L-(S-O)(n-1) <= S
\* characters.
C3_CountAsStated ==
    (cpc = "done" /\ ValidConfig) =>
        LET L == Len(text)
            n == IF L <= CHUNK_SIZE
                 THEN 1
                 ELSE CeilDiv(L - CHUNK_OVERLAP, CHUNK_SIZE - CHUNK_OVERLAP)
        IN /\ Len(page_chunks) = n
           /\ cuts[n][2] = L - (CHUNK_SIZE - CHUNK_OVERLAP) * (n - 1)
           /\ cuts[n][2] <= CHUNK_SIZE

\* C3 as amended: for 0 <= O < S a text of length L gives n fragments, n = 0 if
\* L = 0 and ceil(L/(S-O)) otherwise, and the last fragment, when there is
\* one, covers L-(S-O)(n-1) <= S characters of the text.
C3_ChunkCount ==
    (cpc = "done" /\ ValidConfig) =>
        LET L == Len(text)
            n == IF L = 0 THEN 0 ELSE CeilDiv(L, CHUNK_SIZE - CHUNK_OVERLAP)
        IN /\ Len(page_chunks) = n
           /\ Len(cuts) = n
           /\ n > 0 => /\ cuts[n][2] = L - (CHUNK_SIZE - CHUNK_OVERLAP) * (n - 1)
                       /\ cuts[n][2] <= CHUNK_SIZE

\* a text longer than one window was chunked with an overlap, the count
\* differs from the one stated, and the last fragment is a short one
C3_Witness ==
    /\ cpc = "done"
    /\ ValidConfig
    /\ CHUNK_OVERLAP > 0
    /\ Len(text) > CHUNK_SIZE
    /\ Len(page_chunks) > CeilDiv(Len(text) - CHUNK_OVERLAP, CHUNK_SIZE - CHUNK_OVERLAP)
    /\ cuts[Len(cuts)][2] < CHUNK_SIZE

\* C4: search with k <= 0, or on an index that holds no vectors, returns an
\* empty list and does not raise; and it returns an empty list only then.
C4_DegenerateSearchIsEmpty ==
    (last.op = "search" /\ Len(last.q) = EMBEDDING_DIM) =>
        /\ (last.k <= 0 \/ last.ntotal = 0) => (last.status = "ok" /\ last.value = <<>>)
        /\ (last.status = "ok" /\ last.value = <<>>) => (last.k <= 0 \/ last.ntotal = 0)

\* C5: a reader never observes a partially written pair: a load never meets a
\* half-written artifact, and the two artifacts it loads come from one and the
\* same save_to_disk call.
C5_ReaderSeesOneSnapshot ==
    last.op = "load" =>
        /\ last.status # "raise"
        /\ (last.status = "ok" /\ last.value) => last.gens[1] = last.gens[2]

\* C6: between calls, failed ones included, a handle holds as many vectors as
\* fragments; a successful add of N fragments raises both counts by N.
C6_CountsAgree ==
    /\ \A h \in Handles : Idle(h) => Len(index[h]) = Len(chunks[h])
    /\ (last.op = "add" /\ last.status = "ok") =>
           /\ Len(index[last.h]) = last.ntotal + last.value
           /\ Len(chunks[last.h]) = last.nchunks + last.value

\* C7: a configuration that violates 0 <= overlap < chunk_size is rejected
\* before any fragment is produced: the chunker neither appends a fragment nor
\* returns normally under it.
C7_InvalidConfigRejected ==
    ~ValidConfig => (page_chunks = <<>> /\ cpc # "done")

\* C8: a load given a missing or corrupt snapshot (an artifact absent or
\* unreadable, or the two of unequal length) returns False, does not raise, and
\* leaves the handle's vectors and fragments as they were.
C8_BadSnapshotFailsCleanly ==
    (last.op = "load" /\ last.status # "pending" /\ last.corrupt) =>
        /\ last.status = "ok"
        /\ last.value = FALSE
        /\ last.unchanged

\* C9: if either artifact is absent when load_from_disk is called, the call
\* returns False and leaves the handle's vectors and fragments as they were.
C9_AbsentArtifactLeavesStore ==
    [][\A h \in Handles :
          (/\ Idle(h)
           /\ file_index.state = "absent" \/ file_chunks.state = "absent"
           /\ last'.op = "load"
           /\ last'.h = h)
          => /\ last'.status = "ok"
             /\ last'.value = FALSE
             /\ pc'[h] = "idle"
             /\ index'[h] = index[h]
             /\ chunks'[h] = chunks[h]]_vars

\* a handle that holds fragments was told False while faiss.index was already
\* on disk and chunks.pkl was not, and still holds its fragments
C9_Witness ==
    /\ last.op = "load"
    /\ last.status = "ok"
    /\ last.value = FALSE
    /\ file_index.state # "absent"
    /\ file_chunks.state = "absent"
    /\ chunks[last.h] # <<>>
    /\ index[last.h] # <<>>

C11_AddAllOrNothing ==
    [][\A h \in Handles, batch \in Batches :
          (/\ AddChunks(h, batch)
           /\ \E i \in 1..Len(batch) : Len(batch[i].embedding) # EMBEDDING_DIM)
          => /\ last'.status = "raise"
             /\ index' = index
             /\ chunks' = chunks]_vars

\* a handle refused a batch of two fragments of which one had an embedding of
\* the wrong length, and holds what it held
C11_Witness ==
    /\ last.op = "add"
    /\ last.status = "raise"
    /\ last.value = 2
    /\ last.bad = 1
    /\ Len(index[last.h]) = last.ntotal
    /\ Len(chunks[last.h]) = last.nchunks

\* the first and the last n items of s (all of s when it is shorter)
FirstN(s, n) == SubSeq(s, 1, Min(n, Len(s)))
LastN(s, n) == SubSeq(s, Len(s) - Min(n, Len(s)) + 1, Len(s))

\* the i-th slice text[start:end] the loop took
SliceOf(i) == SubSeq(text, cuts[i][1] + 1, cuts[i][1] + cuts[i][2])

\* C12 as stated: for 0 <= O < S the last O characters of the slice of every
\* fragment equal the first O characters of the slice of the next one, the
\* pair that ends with the final fragment included.
C12_OverlapAsStated ==
    ValidConfig =>
        \A i \in 1..(Len(cuts) - 1) :
            /\ Len(SliceOf(i + 1)) >= CHUNK_OVERLAP
            /\ LastN(SliceOf(i), CHUNK_OVERLAP) = FirstN(SliceOf(i + 1), CHUNK_OVERLAP)

\* C12 as amended: for 0 <= O < S every fragment's text is its slice trimmed,
\* and the last m characters of a slice equal the first m characters of the
\* next slice, where m = O when the next slice holds at least O characters;
\* a slice that holds fewer starts in the last O characters of the text, runs
\* to its end as the slice before it does, and is as a whole the end of that
\* slice.
C12_AdjacentOverlap ==
    ValidConfig =>
        /\ \A i \in 1..Len(cuts) : page_chunks[i].text = Strip(SliceOf(i))
        /\ \A i \in 1..(Len(cuts) - 1) :
               LET m == Min(CHUNK_OVERLAP, Len(SliceOf(i + 1)))
               IN /\ LastN(SliceOf(i), m) = FirstN(SliceOf(i + 1), m)
                  /\ m < CHUNK_OVERLAP =>
                         /\ m = Len(SliceOf(i + 1))
                         /\ cuts[i + 1][1] + CHUNK_OVERLAP > Len(text)
                         /\ cuts[i + 1][1] + cuts[i + 1][2] = Len(text)
                         /\ cuts[i][1] + cuts[i][2] = Len(text)

\* a text was chunked with an overlap of two into three fragments or more, the
\* final one shorter than the overlap, over a text whose last two characters
\* differ
C12_Witness ==
    /\ cpc = "done"
    /\ ValidConfig
    /\ CHUNK_OVERLAP >= 2
    /\ Len(cuts) >= 3
    /\ cuts[Len(cuts)][2] < CHUNK_OVERLAP
    /\ text[Len(text)] # text[Len(text) - 1]

\* the cursor offsets 0, (S-O), 2(S-O), ... below the length of the text
OffsetsBelow(L) == {k * (CHUNK_SIZE - CHUNK_OVERLAP) : k \in 0..L} \cap 0..(L - 1)

\* C13: for 0 <= O < S the chunker terminates, and what it returns holds one
\* fragment per cursor offset 0, (S-O), 2(S-O), ... below len(text), in
\* ascending order and numbered 0, 1, 2, ...; an empty text gives no fragment.
C13_TerminatesWithOffsets ==
    /\ [](ValidConfig =>
            /\ Len(page_chunks) = Len(cuts)
            /\ \A i \in 1..Len(cuts) :
                   /\ cuts[i][1] = (i - 1) * (CHUNK_SIZE - CHUNK_OVERLAP)
                   /\ cuts[i][1] \in OffsetsBelow(Len(text))
                   /\ page_chunks[i].chunk_id = ChunkId(source, page_number, i - 1))
    /\ (ValidConfig ~>
            /\ cpc = "done"
            /\ Len(page_chunks) = Cardinality(OffsetsBelow(Len(text)))
            /\ (text = <<>> => page_chunks = <<>>))

\* the chunker returned three fragments or more for a text chunked with an
\* overlap
C13_Witness ==
    /\ cpc = "done"
    /\ ValidConfig
    /\ CHUNK_OVERLAP > 0
    /\ Len(page_chunks) >= 3
    /\ cuts[3][1] = 2 * (CHUNK_SIZE - CHUNK_OVERLAP)

\* the positions 1..n of the stored vectors by ascending distance d, equal
\* distances by ascending position
InsertionOrderRanking(d) ==
    LET n == Len(d)
    IN Tuple([p \in 1..n |->
           CHOOSE i \in 1..n :
               Cardinality({j \in 1..n : d[j] < d[i] \/ (d[j] = d[i] /\ j < i)}) = p - 1])

\* C14: a search that asks for no more results than vectors are stored returns
\* the nearest fragments, those at equal distance from the query in the order
\* they were added.
C14_TiesByInsertionIndex ==
    (/\ last.op = "search"
     /\ last.status = "ok"
     /\ last.k <= last.ntotal)
    => LET xb == index[last.h]
           d == Tuple([i \in 1..Len(xb) |-> L2Sqr(xb[i], last.q)])
           r == InsertionOrderRanking(d)
       IN last.value = Tuple([p \in 1..last.k |-> <<chunks[last.h][r[p]], d[r[p]]>>])

\* C15 as stated: every generate_answer call invokes the generator exactly
\* once; a call that failed returned neither an answer nor citations.
C15_ExactlyOneCall ==
    gen_out.status \in {"ok", "raise"} =>
        /\ llm_calls = 1
        /\ gen_out.status = "raise" => (gen_out.answer = "" /\ gen_out.sources = <<>>)

\* C15 as amended: a generate_answer call invokes the generator at most once,
\* and exactly once unless the cloud pipeline finds no API token, in which case
\* it raises without calling it; a call in which the generator failed raised,
\* returned neither an answer nor citations, and was not followed by a second
\* generator call.
C15_OneCallNoRetry ==
    /\ llm_calls <= 1
    /\ gen_out.status = "ready" => llm_calls = 0
    /\ gen_out.status = "ok" => llm_calls = 1
    /\ gen_out.status = "raise" =>
           /\ gen_out.answer = ""
           /\ gen_out.sources = <<>>
           /\ llm_calls = 0 <=> (pipeline = "cloud" /\ ~api_token)

\* the generator failed in a call that was given results, under the cloud
\* pipeline with its token configured
C15_Witness ==
    /\ gen_out.status = "raise"
    /\ llm_calls = 1
    /\ pipeline = "cloud"
    /\ api_token
    /\ retrieved_chunks # <<>>

\* what may stand between header and text, and after the text, of an entry
\* that is "the header followed by the fragment text"
EntrySeparators == {"", " ", "\n", ":\n", ": "}
EntryEndings == {"", "\n", "\n\n"}

\* C16 as stated: build_context emits one entry per result, in the order
\* given and without merging repeated fragments, each entry the header
\* "[Source: {source}, Page {page_number}]" followed by the fragment's text.
C16_EntryAsStated ==
    llm_calls >= 1 =>
        /\ Len(context_parts) = Len(retrieved_chunks)
        /\ \A i \in 1..Len(context_parts) :
               LET chunk == retrieved_chunks[i][1]
               IN \E sep \in EntrySeparators, ending \in EntryEndings :
                      context_parts[i] =
                          "[Source: " \o chunk.source \o ", Page "
                              \o ToString(chunk.page_number) \o "]"
                              \o sep \o Str(chunk.text) \o ending

\* C16 as amended: build_context emits one entry per result, in the order
\* given and without merging repeated fragments; entry i (from 1) is
\* "Chunk {i} ", the header "[Source: {source}, Page {page_number}]", ":" and a
\* line break, the fragment's text and a line break; the context is the
\* entries joined by a line break.
C16_ContextEntries ==
    llm_calls >= 1 =>
        /\ Len(context_parts) = Len(retrieved_chunks)
        /\ \A i \in 1..Len(context_parts) :
               LET chunk == retrieved_chunks[i][1]
               IN context_parts[i] =
                      "Chunk " \o ToString(i) \o " [Source: " \o chunk.source \o ", Page "
                          \o ToString(chunk.page_number) \o "]:\n"
                          \o Str(chunk.text) \o "\n"
        /\ context = Join("\n", context_parts)
        /\ context = "" <=> retrieved_chunks = <<>>

\* a context was built from results in which one fragment appears twice, next
\* to a different one
C16_Witness ==
    /\ llm_calls = 1
    /\ Len(retrieved_chunks) >= 3
    /\ \E i, j \in 1..Len(retrieved_chunks) :
           i < j /\ retrieved_chunks[i][1] = retrieved_chunks[j][1]
    /\ \E i, j \in 1..Len(retrieved_chunks) :
           retrieved_chunks[i][1] # retrieved_chunks[j][1]
    /\ Len(context_parts) = 3

\* the sequence_index of the i-th fragment of cs: how many fragments of its
\* page come before it
SequenceIndex(cs, i) ==
    Cardinality({j \in 1..(i - 1) :
        cs[j].source = cs[i].source /\ cs[j].page_number = cs[i].page_number})

\* C17: the id of a fragment is determined by its source, page_number and
\* sequence_index alone (two texts, one id); in the output of chunk_pages over
\* pages of pairwise distinct (source, page_number) no two fragments share an
\* id, and the ids of two fragments of one page differ exactly when their
\* sequence_index differs.
C17_ChunkIdsUnique ==
    /\ \A i \in 1..Len(all_chunks) :
           \A t \in PageTexts :
               all_chunks[i].chunk_id =
                   MakeChunk(t, all_chunks[i].source, all_chunks[i].page_number,
                             SequenceIndex(all_chunks, i)).chunk_id
    /\ \A i, j \in 1..Len(all_chunks) :
           all_chunks[i].chunk_id = all_chunks[j].chunk_id => i = j
    /\ \A i, j \in 1..Len(all_chunks) :
           (/\ all_chunks[i].source = all_chunks[j].source
            /\ all_chunks[i].page_number = all_chunks[j].page_number)
           => (all_chunks[i].chunk_id # all_chunks[j].chunk_id
                   <=> SequenceIndex(all_chunks, i) # SequenceIndex(all_chunks, j))

\* chunk_pages returned the fragments of two pages of one file, two fragments
\* or more from each
C17_Witness ==
    /\ ppc = "done"
    /\ Len(pages) = 2
    /\ pages[1].source = pages[2].source
    /\ \E i, j \in 1..Len(all_chunks) :
           /\ all_chunks[i].page_number # all_chunks[j].page_number
           /\ SequenceIndex(all_chunks, i) = 1
           /\ SequenceIndex(all_chunks, j) = 1

\* whether s is the beginning of t
IsPrefix(s, t) == Len(s) <= Len(t) /\ SubSeq(t, 1, Len(s)) = s

\* C19: fragments are append-only: under add, search and save calls a handle's
\* fragment i goes with vector i, the vector of its embedding, and no step
\* removes, moves or replaces a fragment or a vector it holds.
C19_AppendOnly ==
    /\ [](\A h \in Handles :
            /\ Len(index[h]) = Len(chunks[h])
            /\ \A i \in 1..Len(chunks[h]) :
                   index[h][i] = AsFloat32Vec(chunks[h][i].embedding))
    /\ [][\A h \in Handles :
            /\ IsPrefix(chunks[h], chunks'[h])
            /\ IsPrefix(index[h], index'[h])]_vars

\* a handle that held a fragment and had persisted took in one more
C19_Witness ==
    /\ last.op = "add"
    /\ last.status = "ok"
    /\ last.ntotal >= 1
    /\ nsaves >= 1
    /\ Len(chunks[last.h]) = last.ntotal + last.value
    /\ chunks[last.h][1] # chunks[last.h][Len(chunks[last.h])]

\* the fragments of the documents of an upload that load_pdf can read
RECURSIVE ReadableChunks(_)
ReadableChunks(fs) ==
    IF fs = <<>> THEN <<>>
    ELSE (IF LoadPdfRaises(Head(fs)) THEN <<>> ELSE DocChunks(Head(fs)))
             \o ReadableChunks(Tail(fs))

\* C18: a Process Documents run over an upload that holds an unreadable
\* document is not ended by that document: it skips it, and when the run ends
\* well the fragments of the other documents are embedded, in the session's
\* vector store and persisted.
C18_BadDocumentSkipped ==
    (/\ ipc = "idle"
     /\ ing_result \notin {"none", "running"}
     /\ \E i \in 1..Len(uploaded_files) : LoadPdfRaises(uploaded_files[i]))
    => /\ ing_result # "load"
       /\ ing_result = "ok" =>
              LET cs == EmbedChunks(ReadableChunks(uploaded_files))
              IN /\ session_vector_store.chunks = cs
                 /\ file_chunks = Full(nsaves, cs)

\* C20: a query calls the embedder once and first, then search once, then
\* generate_answer once; generate_answer is given the list search returned for
\* the embedded question, unmodified; and a query whose embedder failed called
\* neither search nor the generator.
C20_EmbedOnceThenSearch ==
    qpc # "off" =>
        /\ IsPrefix(call_log, <<"embed", "search", "generate">>)
        /\ qpc = "embedded" => call_log = <<"embed">>
        /\ qpc = "searched" => call_log = <<"embed", "search">>
        /\ (qpc = "generating" \/ gen_out.status # "off" \/ llm_calls >= 1) =>
               call_log = <<"embed", "search", "generate">>
        /\ qpc = "generating" =>
               /\ retrieved_chunks = search_result
               /\ retrieved_chunks =
                      SearchOutcome(session_vector_store.index, session_vector_store.chunks,
                                    query_embedding, TOP_K_RESULTS, faiss_build)[2]
        /\ query_result = "embed" =>
               /\ call_log = <<"embed">>
               /\ gen_out.status = "off"
               /\ llm_calls = 0
        /\ query_result \in {"ok", "generate"} =>
               call_log = <<"embed", "search", "generate">>
        /\ query_result = "search" => (call_log = <<"embed", "search">> /\ llm_calls = 0)

\* generate_answer answered from two results or more, after one call each of
\* the embedder, search and the generator
C20_Witness ==
    /\ qpc = "generating"
    /\ gen_out.status = "ok"
    /\ call_log = <<"embed", "search", "generate">>
    /\ llm_calls = 1
    /\ Len(retrieved_chunks) >= 2
    /\ retrieved_chunks[1] # retrieved_chunks[2]

\* the document of the model that has a name
DocNamed(name) == CHOOSE doc \in Docs : doc.name = name

\* the vector store a complete run over the documents of these names builds
RECURSIVE NamedChunks(_)
NamedChunks(names) ==
    IF names = <<>> THEN <<>>
    ELSE DocChunks(DocNamed(Head(names))) \o NamedChunks(Tail(names))

BuiltFrom(names) ==
    LET cs == EmbedChunks(NamedChunks(names))
    IN Store(AddedVectors(cs), cs)

\* the steps of a Process Documents run that can raise
FailedSteps == {"load", "embed", "add", "save"}

C22_SearchReadOnly ==
    [][last'.op = "search" =>
           /\ index' = index
           /\ chunks' = chunks
           /\ file_index' = file_index
           /\ file_chunks' = file_chunks
           /\ last'.ntotal = Len(index'[last'.h])
           /\ last'.nchunks = Len(chunks'[last'.h])
           /\ last'.status \in {"ok", "raise"}]_vars

\* a search over a persisted store of two fragments returned both of them, and
\* the handle and the snapshot hold the two fragments still
C22_Witness ==
    /\ last.op = "search"
    /\ last.status = "ok"
    /\ Len(last.value) = 2
    /\ Len(index["A"]) = 2
    /\ Len(chunks["A"]) = 2
    /\ file_index = Full(nsaves, index["A"])
    /\ file_chunks = Full(nsaves, chunks["A"])

====
